---- MODULE Spec2Model ----
(***************************************************************************)
(* Callout Navigator: the annotation extractor (parseCallouts), the tree   *)
(* builder (buildCommentTree), the ordering engine (the sort/structure     *)
(* block of updateView and the child reordering of                         *)
(* renderCommentsRecursive), the token-guarded refresh protocol of         *)
(* CalloutNavigatorView.updateView, insertCallout with getFormattedDate,   *)
(* and the tracked users of the settings tab.                              *)
(*                                                                         *)
(* Text is a sequence of one-character strings.  An instant is a number of *)
(* minutes since 1970-01-01T00:00 (Date.parse's milliseconds divided by    *)
(* 60000: the seconds of every parsed instant are zero).  Local time is   *)
(* that of Europe/Madrid.                                                  *)
(***************************************************************************)
EXTENDS Integers, Sequences, FiniteSets, TLC

VARIABLES
    content,               \* the text vault.read returns for the active file
    users,                 \* settings.users: the configured tags, in order
    sortByTimestamp,       \* settings.sortByTimestamp
    flattenChronological,  \* settings.flattenChronological
    sortAscending,         \* settings.sortAscending
    activeMd,              \* workspace.getActiveFile() is a markdown file
    lastUpdateId,          \* CalloutNavigatorView.lastUpdateId
    pending,               \* updateIds of updateView calls awaiting vault.read
    saving,                \* saveSettings() calls in flight, by kind of caller
    authorName,            \* settings.authorName
    now,                   \* the clock: the instant new Date() returns, in seconds
    engine,                \* the JavaScript engine's fixed choice of order for
                           \* a sort whose comparator is not consistent
    view,                  \* what contentEl shows, and the run that drew it
    stale                  \* history: the token of the last updateView call that
                           \* returned at 'if (updateId !== this.lastUpdateId)'

vars == <<content, users, sortByTimestamp, flattenChronological, sortAscending,
          activeMd, lastUpdateId, pending, saving, authorName, now, engine, view,
          stale>>

----------------------------------------------------------------------------
(* Bounds *)

MaxLines == 4
MaxParseLines == 3
MaxUpdates == 3
MaxLevel == 3
MaxFlat == 4
NumEngines == 2
MaxUsers == 3

----------------------------------------------------------------------------
(* Text helpers *)

UpperChars == <<"A","B","C","D","E","F","G","H","I","J","K","L","M",
                "N","O","P","Q","R","S","T","U","V","W","X","Y","Z">>
LowerChars == <<"a","b","c","d","e","f","g","h","i","j","k","l","m",
                "n","o","p","q","r","s","t","u","v","w","x","y","z">>
DigitChars == <<"0","1","2","3","4","5","6","7","8","9">>

\* String.prototype.toLowerCase on one character
LowerChar(c) ==
    IF \E i \in 1..26 : UpperChars[i] = c
    THEN LowerChars[CHOOSE i \in 1..26 : UpperChars[i] = c]
    ELSE c

toLowerCase(s) == [i \in 1..Len(s) |-> LowerChar(s[i])]

\* the regular expression class \s
IsSpace(c) == c \in {" ", "\t", "\r"}

\* the regular expression class \d
IsDigit(c) == \E i \in 1..10 : DigitChars[i] = c

DigitVal(c) == (CHOOSE i \in 1..10 : DigitChars[i] = c) - 1

\* first position >= p of s that holds no white space (Len(s)+1 if none): \s*
RECURSIVE SkipSpace(_, _)
SkipSpace(s, p) ==
    IF p <= Len(s) /\ IsSpace(s[p]) THEN SkipSpace(s, p + 1) ELSE p

\* String.prototype.trim
RECURSIVE TrimEnd(_)
TrimEnd(s) ==
    IF Len(s) > 0 /\ IsSpace(s[Len(s)]) THEN TrimEnd(SubSeq(s, 1, Len(s) - 1)) ELSE s

trim(s) == TrimEnd(SubSeq(s, SkipSpace(s, 1), Len(s)))

\* the first position >= p of s that holds c, Len(s) + 1 if there is none:
\* String.prototype.indexOf
IndexFrom(s, c, p) ==
    IF \E q \in p..Len(s) : s[q] = c
    THEN CHOOSE q \in p..Len(s) : s[q] = c /\ \A r \in p..(q - 1) : s[r] # c
    ELSE Len(s) + 1

\* content.split('\n'): every newline ends a line, blank lines are kept
RECURSIVE SplitFrom(_, _)
SplitFrom(s, p) ==
    LET q == IndexFrom(s, "\n", p)
    IN  IF q > Len(s) THEN <<SubSeq(s, p, Len(s))>>
        ELSE <<SubSeq(s, p, q - 1)>> \o SplitFrom(s, q + 1)

\* a variant that drops the blank lines, as content.split(/\n+/) would for
\* the blank lines inside the text
splitNoBlank(s) ==
    LET ls == SplitFrom(s, 1)
        F[i \in 0..Len(ls)] ==
            IF i = 0 THEN <<>>
            ELSE IF ls[i] = <<>> THEN F[i - 1] ELSE Append(F[i - 1], ls[i])
    IN  F[Len(ls)]

split(s) == SplitFrom(s, 1)

\* lines.join('\n')
RECURSIVE join(_)
join(ls) ==
    IF Len(ls) = 0 THEN <<>>
    ELSE IF Len(ls) = 1 THEN ls[1]
    ELSE ls[1] \o <<"\n">> \o join(Tail(ls))

----------------------------------------------------------------------------
(* Tag matcher: the pattern parseCallouts compiles from settings.users *)

RegExpSpecials == {".", "*", "+", "?", "^", "$", "{", "}", "(", ")", "|", "[", "]", "\\"}

\* a variant whose character class lacks the '.'
escapeRegExpNoDot(str) ==
    IF Len(str) = 0 THEN <<>>
    ELSE LET F[i \in 0..Len(str)] ==
               IF i = 0 THEN <<>>
               ELSE IF str[i] \in RegExpSpecials \ {"."}
                    THEN F[i - 1] \o <<"\\", str[i]>>
                    ELSE Append(F[i - 1], str[i])
         IN  F[Len(str)]

\* escapeRegExp: string.replace(/[.*+?^${}()|[\]\\]/g, '\\$&')
escapeRegExp(str) ==
    IF Len(str) = 0 THEN <<>>
    ELSE LET F[i \in 0..Len(str)] ==
               IF i = 0 THEN <<>>
               ELSE IF str[i] \in RegExpSpecials
                    THEN F[i - 1] \o <<"\\", str[i]>>
                    ELSE Append(F[i - 1], str[i])
         IN  F[Len(str)]

\* users.map(u => escapeRegExp(u.tag)).join('|')
RECURSIVE tagsPattern(_)
tagsPattern(us) ==
    IF Len(us) = 0 THEN <<>>
    ELSE IF Len(us) = 1 THEN escapeRegExp(us[1])
    ELSE escapeRegExp(us[1]) \o <<"|">> \o tagsPattern(Tail(us))

\* the first position > i of pat that holds a ']' no backslash precedes, 0 if
\* there is none: the end of the character class that opens at i
ClassEnd(pat, i) ==
    LET ends == {j \in (i + 1)..Len(pat) : pat[j] = "]" /\ pat[j - 1] # "\\"}
    IN  IF ends = {} THEN 0 ELSE CHOOSE j \in ends : \A k \in ends : j <= k

\* new RegExp accepts the text pat inside the group (...) of regexStr: read
\* from position i with depth groups open in pat, last telling what stands
\* before i ("none", an "atom" or a "quantifier").  It throws a SyntaxError
\* for a group left open or closed twice, a character class left open, a
\* quantifier with nothing to repeat, and a backslash at the end.
RECURSIVE CompilesFrom(_, _, _, _)
CompilesFrom(pat, i, depth, last) ==
    IF i > Len(pat) THEN depth = 0
    ELSE IF pat[i] = "\\"
         THEN i < Len(pat) /\ CompilesFrom(pat, i + 2, depth, "atom")
    ELSE IF pat[i] = "(" THEN CompilesFrom(pat, i + 1, depth + 1, "none")
    ELSE IF pat[i] = ")"
         THEN depth > 0 /\ CompilesFrom(pat, i + 1, depth - 1, "atom")
    ELSE IF pat[i] \in {"|", "^", "$"} THEN CompilesFrom(pat, i + 1, depth, "none")
    ELSE IF pat[i] \in {"*", "+"}
         THEN last = "atom" /\ CompilesFrom(pat, i + 1, depth, "quantifier")
    ELSE IF pat[i] = "?"
         THEN /\ last # "none"
              /\ CompilesFrom(pat, i + 1, depth,
                              IF last = "atom" THEN "quantifier" ELSE "none")
    ELSE IF pat[i] = "["
         THEN /\ ClassEnd(pat, i) # 0
              /\ CompilesFrom(pat, ClassEnd(pat, i) + 1, depth, "atom")
    ELSE CompilesFrom(pat, i + 1, depth, "atom")

\* new RegExp(regexStr, 'i') returns a matcher for this tagsPattern
Compiles(pat) == CompilesFrom(pat, 1, 0, "none")

\* the alternatives of a pattern: it is cut at every '|' no backslash precedes
RECURSIVE AlternativesFrom(_, _, _)
AlternativesFrom(pat, i, cur) ==
    IF i > Len(pat) THEN <<cur>>
    ELSE IF pat[i] = "\\" /\ i < Len(pat)
         THEN AlternativesFrom(pat, i + 2, cur \o <<pat[i], pat[i + 1]>>)
    ELSE IF pat[i] = "|" THEN <<cur>> \o AlternativesFrom(pat, i + 1, <<>>)
    ELSE AlternativesFrom(pat, i + 1, Append(cur, pat[i]))

Alternatives(pat) == AlternativesFrom(pat, 1, <<>>)

\* One alternative matched against s from position p under the 'i' flag: the
\* position after the match, 0 if there is none.  A backslash makes the next
\* character literal, an unescaped '.' stands for any character of the line.
RECURSIVE MatchAlt(_, _, _, _)
MatchAlt(pat, i, s, p) ==
    IF i > Len(pat) THEN p
    ELSE IF p > Len(s) THEN 0
    ELSE IF pat[i] = "\\" /\ i < Len(pat)
         THEN IF LowerChar(s[p]) = LowerChar(pat[i + 1])
              THEN MatchAlt(pat, i + 2, s, p + 1) ELSE 0
    ELSE IF pat[i] = "."
         THEN IF s[p] \notin {"\n", "\r"} THEN MatchAlt(pat, i + 1, s, p + 1) ELSE 0
    ELSE IF LowerChar(s[p]) = LowerChar(pat[i])
         THEN MatchAlt(pat, i + 1, s, p + 1) ELSE 0

\* (alt1|alt2|...)\] from position p: the position of the ']' closing the first
\* alternative, in order, after which a ']' follows; 0 if there is none
RECURSIVE MatchTag(_, _, _, _)
MatchTag(alts, k, s, p) ==
    IF k > Len(alts) THEN 0
    ELSE LET e == MatchAlt(alts[k], 1, s, p)
         IN  IF e # 0 /\ e <= Len(s) /\ s[e] = "]" THEN e
             ELSE MatchTag(alts, k + 1, s, p)

\* a variant that counts every '>' of the line, those of the body included
RECURSIVE QuoteRunWholeLine(_, _, _)
QuoteRunWholeLine(s, p, n) ==
    LET q == SkipSpace(s, p + 1)
    IN  IF q <= Len(s) /\ s[q] = ">" THEN QuoteRunWholeLine(s, q, n + 1)
        ELSE [end |-> p + 1,
              count |-> Cardinality({r \in 1..Len(s) : s[r] = ">"})]

\* ((?:\s*>)+) from position p, which holds a '>': the position after the
\* last '>' of the run and the number of '>' in it
RECURSIVE QuoteRun(_, _, _)
QuoteRun(s, p, n) ==
    LET q == SkipSpace(s, p + 1)
    IN  IF q <= Len(s) /\ s[q] = ">" THEN QuoteRun(s, q, n + 1)
        ELSE [end |-> p + 1, count |-> n + 1]

\* '.' in (.*) matches no line terminator: the text up to the first one
RestOfLine(s, p) ==
    SubSeq(s, p, (IF IndexFrom(s, "\n", p) < IndexFrom(s, "\r", p)
                  THEN IndexFrom(s, "\n", p) ELSE IndexFrom(s, "\r", p)) - 1)

NoMatch == [ok |-> FALSE, quotes |-> 0, tag |-> <<>>, rest |-> <<>>]

\* line.match(/^\s*((?:\s*>)+)\s*\[!(tags)\][-+]?\s*(.*)/i):
\* quotes is the number of '>' in group 1, tag is group 2, rest is group 3
LineMatch(line, pattern) ==
    LET p0 == SkipSpace(line, 1)
    IN  IF ~(p0 <= Len(line) /\ line[p0] = ">") THEN NoMatch
        ELSE
        LET run == QuoteRun(line, p0, 0)
            p1  == SkipSpace(line, run.end)
        IN  IF ~(p1 + 1 <= Len(line) /\ line[p1] = "[" /\ line[p1 + 1] = "!")
            THEN NoMatch
            ELSE
            LET e == MatchTag(Alternatives(pattern), 1, line, p1 + 2)
            IN  IF e = 0 THEN NoMatch
                ELSE
                LET p2 == IF e + 1 <= Len(line) /\ line[e + 1] \in {"-", "+"}
                          THEN e + 2 ELSE e + 1
                    p3 == SkipSpace(line, p2)
                IN  [ok |-> TRUE, quotes |-> run.count,
                     tag |-> SubSeq(line, p1 + 2, e - 1),
                     rest |-> RestOfLine(line, p3)]

----------------------------------------------------------------------------
(* Embedded timestamp: the tsMatch pattern and Date.parse *)

Undefined == [k |-> "undefined", v |-> 0]
NaN == [k |-> "NaN", v |-> 0]
Num(n) == [k |-> "number", v |-> n]

\* dddd-dd-dd?dd:dd at positions p .. p+15 of s, whatever stands for '?'
IsStampShape(s, p) ==
    /\ p + 15 <= Len(s)
    /\ \A i \in {0, 1, 2, 3, 5, 6, 8, 9, 11, 12, 14, 15} : IsDigit(s[p + i])
    /\ s[p + 4] = "-" /\ s[p + 7] = "-"
    /\ s[p + 13] = ":"

\* \d{4}-\d{2}-\d{2}\s\d{2}:\d{2} at positions p .. p+15 of s
IsStampAt(s, p) == IsStampShape(s, p) /\ IsSpace(s[p + 10])

\* contentText.match(/\((\d{4}-\d{2}-\d{2}\s\d{2}:\d{2})\)/): group 1 of the
\* leftmost match, <<>> if there is none
RECURSIVE tsMatchFrom(_, _)
tsMatchFrom(s, p) ==
    IF p + 17 > Len(s) THEN <<>>
    ELSE IF s[p] = "(" /\ IsStampAt(s, p + 1) /\ s[p + 17] = ")"
         THEN SubSeq(s, p + 1, p + 16)
    ELSE tsMatchFrom(s, p + 1)

tsMatch(s) == tsMatchFrom(s, 1)

\* String.prototype.replace(' ', 'T'): the first space only
RECURSIVE replaceSpaceFrom(_, _)
replaceSpaceFrom(s, p) ==
    IF p > Len(s) THEN s
    ELSE IF s[p] = " " THEN [s EXCEPT ![p] = "T"]
    ELSE replaceSpaceFrom(s, p + 1)

replaceSpaceByT(s) == replaceSpaceFrom(s, 1)

Num2(s, p) == DigitVal(s[p]) * 10 + DigitVal(s[p + 1])

Num4(s, p) == Num2(s, p) * 100 + Num2(s, p + 2)

IsLeapYear(y) == (y % 4 = 0 /\ y % 100 # 0) \/ y % 400 = 0

DaysInMonth(y, m) ==
    IF m = 2 THEN (IF IsLeapYear(y) THEN 29 ELSE 28)
    ELSE IF m \in {4, 6, 9, 11} THEN 30 ELSE 31

\* days from 1970-01-01 to the civil date y-m-d (MakeDay)
DaysFromCivil(y, m, d) ==
    LET yy  == IF m <= 2 THEN y - 1 ELSE y
        era == yy \div 400
        yoe == yy - era * 400
        mp  == IF m > 2 THEN m - 3 ELSE m + 9
        doy == (153 * mp + 2) \div 5 + d - 1
        doe == yoe * 365 + yoe \div 4 - yoe \div 100 + doy
    IN  era * 146097 + doe - 719468

\* civil date [y, m, d] of the day z days after 1970-01-01 (YearFromTime,
\* MonthFromTime, DateFromTime)
CivilFromDays(z) ==
    LET zz  == z + 719468
        era == zz \div 146097
        doe == zz - era * 146097
        yoe == (doe - doe \div 1460 + doe \div 36524 - doe \div 146096) \div 365
        doy == doe - (365 * yoe + yoe \div 4 - yoe \div 100)
        mp  == (5 * doy + 2) \div 153
        m   == IF mp < 10 THEN mp + 3 ELSE mp - 9
    IN  [y |-> yoe + era * 400 + (IF m <= 2 THEN 1 ELSE 0),
         m |-> m,
         d |-> doy - (153 * mp + 2) \div 5 + 1]

\* The local time zone is Europe/Madrid under its rules of 2024: daylight
\* saving time from 2024-03-31T01:00Z up to 2024-10-27T01:00Z.
\* t, in minutes since the epoch, falls in daylight saving time
InDaylightTime(t) ==
    /\ t >= DaysFromCivil(2024, 3, 31) * 1440 + 60
    /\ t < DaysFromCivil(2024, 10, 27) * 1440 + 60

\* LocalTime(t): the local time of the instant t, both in minutes
LocalTime(t) == t + (IF InDaylightTime(t) THEN 120 ELSE 60)

\* UTC(tlocal): the instant of a local time.  A local time that a clock
\* change repeats or skips is read with the offset in force before the change.
UTC(tlocal) == IF InDaylightTime(tlocal - 120) THEN tlocal - 120 ELSE tlocal - 60

\* Date.parse of the date-time form YYYY-MM-DDTHH:mm (no offset: local time).
\* A string of another shape, or one whose fields are out of range, is NaN.
DateParse(s) ==
    IF ~(Len(s) = 16 /\ IsStampShape(s, 1) /\ s[11] = "T") THEN NaN
    ELSE
    LET y == Num4(s, 1)
        m == Num2(s, 6)
        d == Num2(s, 9)
        h == Num2(s, 12)
        n == Num2(s, 15)
    IN  IF /\ m \in 1..12
           /\ d \in 1..DaysInMonth(y, m)
           /\ (h \in 0..23 \/ (h = 24 /\ n = 0))
           /\ n \in 0..59
        THEN Num(UTC(DaysFromCivil(y, m, d) * 1440 + h * 60 + n))
        ELSE NaN

\* the timestamp parseCallouts gives a matched line with this contentText
Timestamp(contentText) ==
    LET m == tsMatch(contentText)
    IN  IF m = <<>> THEN Undefined ELSE DateParse(replaceSpaceByT(m))

----------------------------------------------------------------------------
(* parseCallouts *)

Untitled == <<"U", "n", "t", "i", "t", "l", "e", "d">>

\* the object parseCallouts pushes for a matched line
Comment(index, m) ==
    LET contentText == IF trim(m.rest) = <<>> THEN Untitled ELSE trim(m.rest)
    IN  [lineNumber |-> index,
         author     |-> toLowerCase(m.tag),
         content    |-> contentText,
         timestamp  |-> Timestamp(contentText),
         level      |-> m.quotes,
         children   |-> <<>>]

\* lines.forEach((line, index) => ...): lines[i] has index i - 1
RECURSIVE ForEachLine(_, _, _, _)
ForEachLine(lines, i, pattern, comments) ==
    IF i > Len(lines) THEN comments
    ELSE LET m == LineMatch(lines[i], pattern)
         IN  ForEachLine(lines, i + 1, pattern,
                         IF m.ok THEN Append(comments, Comment(i - 1, m))
                         ELSE comments)

\* a variant without 'if (users.length === 0) return []'
parseCalloutsNoEmptyTest(text, us) ==
    ForEachLine(split(text), 1, tagsPattern(us), <<>>)

\* parseCallouts(content) under settings.users = us (the tags, in order)
parseCallouts(text, us) ==
    IF Len(us) = 0 THEN <<>>
    ELSE ForEachLine(split(text), 1, tagsPattern(us), <<>>)

\* main.ts, line.match(/>\s*\[!(tags)\][-+]?\s*(.*)/i) tried at position p: the
\* pattern is not anchored, the leftmost '>' that starts a match is taken
RECURSIVE LineMatchMainFrom(_, _, _)
LineMatchMainFrom(line, pattern, p) ==
    IF p > Len(line) THEN NoMatch
    ELSE
    LET p1 == SkipSpace(line, p + 1)
        e  == IF line[p] = ">" /\ p1 + 1 <= Len(line)
                 /\ line[p1] = "[" /\ line[p1 + 1] = "!"
              THEN MatchTag(Alternatives(pattern), 1, line, p1 + 2) ELSE 0
    IN  IF e = 0 THEN LineMatchMainFrom(line, pattern, p + 1)
        ELSE
        LET p2 == IF e + 1 <= Len(line) /\ line[e + 1] \in {"-", "+"}
                  THEN e + 2 ELSE e + 1
        IN  [ok |-> TRUE, quotes |-> 0, tag |-> SubSeq(line, p1 + 2, e - 1),
             rest |-> RestOfLine(line, SkipSpace(line, p2))]

LineMatchMain(line, pattern) == LineMatchMainFrom(line, pattern, 1)

RECURSIVE ForEachLineMain(_, _, _, _)
ForEachLineMain(lines, i, pattern, comments) ==
    IF i > Len(lines) THEN comments
    ELSE LET m == LineMatchMain(lines[i], pattern)
         IN  ForEachLineMain(lines, i + 1, pattern,
                 IF m.ok
                 THEN Append(comments,
                             [lineNumber |-> i - 1,
                              author     |-> toLowerCase(m.tag),
                              content    |-> IF trim(m.rest) = <<>> THEN Untitled
                                             ELSE trim(m.rest)])
                 ELSE comments)

\* main.ts, parseCallouts(content) under settings.users = us
parseCalloutsMain(text, us) ==
    IF Len(us) = 0 THEN <<>>
    ELSE ForEachLineMain(split(text), 1, tagsPattern(us), <<>>)

----------------------------------------------------------------------------
(* insertCallout *)

\* String(n) for n >= 0
RECURSIVE String(_)
String(n) ==
    IF n < 10 THEN <<DigitChars[n + 1]>>
    ELSE Append(String(n \div 10), DigitChars[(n % 10) + 1])

\* String.prototype.padStart(2, '0')
padStart2(s) == IF Len(s) < 2 THEN <<"0">> \o s ELSE s

\* getFormattedDate() at the instant t (seconds since the epoch): the local
\* date and time, to the minute
getFormattedDate(t) ==
    LET local == LocalTime(t \div 60)
        date  == CivilFromDays(local \div 1440)
        hh    == (local % 1440) \div 60
        min   == local % 60
    IN  String(date.y) \o <<"-">> \o padStart2(String(date.m)) \o <<"-">>
          \o padStart2(String(date.d)) \o <<" ">> \o padStart2(String(hh))
          \o <<":">> \o padStart2(String(min))

\* const header = `> [!${author}]- ${author} (${timestamp})`
header(author, timestamp) ==
    <<">", " ", "[", "!">> \o author \o <<"]", "-", " ">> \o author
      \o <<" ", "(">> \o timestamp \o <<")">>

\* lines.map(line => `> ${line}`)
quoted(lines) == [i \in 1..Len(lines) |-> <<">", " ">> \o lines[i]]

\* insertCallout: the text editor.replaceSelection is given in place of
\* selection, author being settings.authorName and t the instant of the call
insertCallout(selection, author, t) ==
    LET h == header(author, getFormattedDate(t))
    IN  IF Len(selection) > 0
        THEN h \o <<"\n">> \o join(quoted(split(selection))) \o <<"\n">>
        ELSE h \o <<"\n", ">", " ">>

----------------------------------------------------------------------------
(* Array.prototype.sort, reverse *)

\* the comment objects of one parse are named by their position in the array
\* parseCallouts returned; an array of comments is a sequence of such names
Refs(heap) == 1..Len(heap)

Range(list) == {list[i] : i \in 1..Len(list)}

\* Array.prototype.reverse
reverse(list) == [i \in 1..Len(list) |-> list[Len(list) + 1 - i]]

\* const getSortValue = (c) => c.timestamp ?? 0
getSortValue(c) == IF c.timestamp = Undefined THEN Num(0) ELSE c.timestamp

\* (a, b) => (getSortValue(a) - getSortValue(b)) * direction, as sort reads it:
\* a comparator result of NaN counts as +0
chronoCompare(heap, asc, a, b) ==
    LET va == getSortValue(heap[a])
        vb == getSortValue(heap[b])
    IN  IF va = NaN \/ vb = NaN THEN 0
        ELSE (va.v - vb.v) * (IF asc THEN 1 ELSE -1)

\* (a, b) => a.lineNumber - b.lineNumber
lineCompare(heap, a, b) == heap[a].lineNumber - heap[b].lineNumber

\* ECMAScript's "consistent comparator" on the values of list: cmp is a
\* function of pairs of them
Consistent(list, cmp) ==
    \A a, b, c \in Range(list) :
        /\ cmp[a, a] = 0
        /\ (cmp[a, b] < 0) <=> (cmp[b, a] > 0)
        /\ (cmp[a, b] = 0 /\ cmp[b, c] = 0) => cmp[a, c] = 0
        /\ (cmp[a, b] < 0 /\ cmp[b, c] < 0) => cmp[a, c] < 0
        /\ (cmp[a, b] > 0 /\ cmp[b, c] > 0) => cmp[a, c] > 0

\* x put into the sorted sequence after every element not greater than it
RECURSIVE InsertStable(_, _, _)
InsertStable(sorted, x, cmp) ==
    IF Len(sorted) = 0 \/ cmp[sorted[Len(sorted)], x] <= 0 THEN Append(sorted, x)
    ELSE Append(InsertStable(SubSeq(sorted, 1, Len(sorted) - 1), x, cmp),
                sorted[Len(sorted)])

RECURSIVE StableSortFrom(_, _, _, _)
StableSortFrom(list, i, cmp, sorted) ==
    IF i > Len(list) THEN sorted
    ELSE StableSortFrom(list, i + 1, cmp, InsertStable(sorted, list[i], cmp))

\* the k-th rearrangement of list (the 0-th leaves it as it is)
RECURSIVE KthPermutation(_, _)
KthPermutation(list, k) ==
    IF Len(list) = 0 THEN <<>>
    ELSE LET i == (k % Len(list)) + 1
         IN  <<list[i]>> \o
             KthPermutation(SubSeq(list, 1, i - 1) \o SubSeq(list, i + 1, Len(list)),
                            k \div Len(list))

\* Array.prototype.sort(comparefn): a stable sort when comparefn is a
\* consistent comparator for the elements; otherwise the order is
\* implementation-defined, and is the rearrangement the engine settles on
ArraySort(list, cmp) ==
    IF Consistent(list, cmp) THEN StableSortFrom(list, 1, cmp, <<>>)
    ELSE KthPermutation(list, engine)

\* comments.sort((a, b) => (getSortValue(a) - getSortValue(b)) * direction)
sortChronological(heap, list, asc) ==
    ArraySort(list, [a \in Range(list), b \in Range(list) |->
                       chronoCompare(heap, asc, a, b)])

\* comments.sort((a, b) => a.lineNumber - b.lineNumber)
sortByLine(heap, list) ==
    ArraySort(list, [a \in Range(list), b \in Range(list) |-> lineCompare(heap, a, b)])

----------------------------------------------------------------------------
(* buildCommentTree *)

\* a variant that pops only the strictly deeper comments
RECURSIVE popStackDeeperOnly(_, _, _)
popStackDeeperOnly(heap, stack, comment) ==
    IF Len(stack) > 0 /\ heap[stack[Len(stack)]].level > heap[comment].level
    THEN popStackDeeperOnly(heap, SubSeq(stack, 1, Len(stack) - 1), comment)
    ELSE stack

\* while (stack.length > 0 && stack[stack.length - 1].level >= comment.level)
\*     stack.pop()
RECURSIVE popStack(_, _, _)
popStack(heap, stack, comment) ==
    IF Len(stack) > 0 /\ heap[stack[Len(stack)]].level >= heap[comment].level
    THEN popStack(heap, SubSeq(stack, 1, Len(stack) - 1), comment)
    ELSE stack

\* a variant that takes the level-1 comments for the roots: a deeper comment
\* met with no open comment is attached nowhere
treeStepLevelOneRoots(st, comment) ==
    LET stack == popStack(st.heap, st.stack, comment)
    IN  IF st.heap[comment].level = 1
        THEN [heap |-> st.heap, tree |-> Append(st.tree, comment),
              stack |-> Append(stack, comment)]
        ELSE IF Len(stack) = 0 THEN [st EXCEPT !.stack = <<comment>>]
        ELSE [heap  |-> [st.heap EXCEPT ![stack[Len(stack)]].children = Append(@, comment)],
              tree  |-> st.tree,
              stack |-> Append(stack, comment)]

\* the body of flatComments.forEach(comment => ...)
treeStep(st, comment) ==
    LET stack == popStack(st.heap, st.stack, comment)
    IN  IF Len(stack) = 0
        THEN [heap |-> st.heap, tree |-> Append(st.tree, comment),
              stack |-> Append(stack, comment)]
        ELSE [heap  |-> [st.heap EXCEPT ![stack[Len(stack)]].children = Append(@, comment)],
              tree  |-> st.tree,
              stack |-> Append(stack, comment)]

RECURSIVE treeFrom(_, _, _)
treeFrom(st, flatComments, i) ==
    IF i > Len(flatComments) THEN st
    ELSE treeFrom(treeStep(st, flatComments[i]), flatComments, i + 1)

\* buildCommentTree(flatComments): the roots it returns and the heap with the
\* children it pushed
buildCommentTree(heap, flatComments) ==
    LET st == treeFrom([heap |-> heap, tree |-> <<>>, stack |-> <<>>], flatComments, 1)
    IN  [heap |-> st.heap, comments |-> st.tree]

----------------------------------------------------------------------------
(* updateView: "Apply sorting and structure logic" *)

\* a variant that does not reverse the roots
structureCommentsNoReverse(heap, byTs, flatten, asc) ==
    LET comments == [i \in 1..Len(heap) |-> i]
    IN  IF byTs
        THEN LET sorted == sortChronological(heap, comments, asc)
             IN  IF ~flatten
                 THEN LET t == buildCommentTree(heap, sorted)
                      IN  [heap |-> t.heap, sorted |-> sorted, comments |-> t.comments]
                 ELSE [heap |-> heap, sorted |-> sorted, comments |-> sorted]
        ELSE LET sorted == sortByLine(heap, comments)
                 t == buildCommentTree(heap, sorted)
             IN  [heap |-> t.heap, sorted |-> sorted, comments |-> t.comments]

\* a variant that builds the tree in chronological mode whatever
\* flattenChronological says
structureCommentsAlwaysTree(heap, byTs, flatten, asc) ==
    LET comments == [i \in 1..Len(heap) |-> i]
        sorted == IF byTs THEN sortChronological(heap, comments, asc)
                  ELSE sortByLine(heap, comments)
        t == buildCommentTree(heap, sorted)
    IN  [heap |-> t.heap, sorted |-> sorted,
         comments |-> IF ~byTs /\ ~asc THEN reverse(t.comments) ELSE t.comments]

\* lines 333-349 on the array parseCallouts returned: sorted is that array once
\* sorted in place, comments is the array handed to renderCommentList
structureComments(heap, byTs, flatten, asc) ==
    LET comments == [i \in 1..Len(heap) |-> i]
    IN  IF byTs
        THEN LET sorted == sortChronological(heap, comments, asc)
             IN  IF ~flatten
                 THEN LET t == buildCommentTree(heap, sorted)
                      IN  [heap |-> t.heap, sorted |-> sorted, comments |-> t.comments]
                 ELSE [heap |-> heap, sorted |-> sorted, comments |-> sorted]
        ELSE LET sorted == sortByLine(heap, comments)
                 t == buildCommentTree(heap, sorted)
             IN  [heap |-> t.heap, sorted |-> sorted,
                  comments |-> IF ~asc THEN reverse(t.comments) ELSE t.comments]

----------------------------------------------------------------------------
(* renderCommentsRecursive *)

\* let childrenToRender = [...comment.children], then sorted or reversed
childrenToRender(heap, comment, byTs, asc) ==
    IF byTs THEN sortChronological(heap, heap[comment].children, asc)
    ELSE IF ~asc THEN reverse(heap[comment].children)
    ELSE heap[comment].children

\* a variant that draws no children container
renderRootsOnly(heap, comments, byTs, asc) ==
    [i \in 1..Len(comments) |-> [comment |-> comments[i], cards |-> <<>>]]

\* the cards renderCommentsRecursive creates for comments, in order: each card
\* with the cards of its children container
RECURSIVE renderCommentsRecursive(_, _, _, _)
renderCommentsRecursive(heap, comments, byTs, asc) ==
    [i \in 1..Len(comments) |->
        [comment |-> comments[i],
         cards   |-> IF Len(heap[comments[i]].children) > 0
                     THEN renderCommentsRecursive(
                              heap, childrenToRender(heap, comments[i], byTs, asc),
                              byTs, asc)
                     ELSE <<>>]]

\* a variant that sorts or reverses comment.children itself
storedAfterRenderInPlace(heap, comments, byTs, asc) ==
    [r \in 1..Len(heap) |->
        [heap[r] EXCEPT !.children = childrenToRender(heap, r, byTs, asc)]]

\* the comment objects once renderCommentsRecursive has run: it sorts or
\* reverses the copy [...comment.children], the stored children stay
storedAfterRender(heap, comments, byTs, asc) == heap

----------------------------------------------------------------------------
(* The view *)

Blank ==
    [kind |-> "blank", id |-> 0, heap |-> <<>>, sorted |-> <<>>, comments |-> <<>>,
     cards |-> <<>>, byTs |-> FALSE, flatten |-> FALSE, asc |-> FALSE]

\* container.empty() and the 'No active markdown file.' paragraph
NoFileView(updateId) == [Blank EXCEPT !.kind = "nofile", !.id = updateId]

\* a variant that keeps the comment objects of the list it shows and parses
\* only when it shows none
drawViewKeepingComments(updateId, text) ==
    LET parsed == IF view.kind = "list" THEN view.heap ELSE parseCallouts(text, users)
    IN  IF Len(parsed) = 0
        THEN [Blank EXCEPT !.kind = "empty", !.id = updateId]
        ELSE LET s == structureComments(parsed, sortByTimestamp,
                                        flattenChronological, sortAscending)
             IN  [kind     |-> "list",
                  id       |-> updateId,
                  heap     |-> storedAfterRender(s.heap, s.comments,
                                                sortByTimestamp, sortAscending),
                  sorted   |-> s.sorted,
                  comments |-> s.comments,
                  cards    |-> renderCommentsRecursive(s.heap, s.comments,
                                                       sortByTimestamp, sortAscending),
                  byTs     |-> sortByTimestamp,
                  flatten  |-> flattenChronological,
                  asc      |-> sortAscending]

\* updateView from parseCallouts on: what the run with token updateId leaves in
\* contentEl when vault.read returned text
drawView(updateId, text) ==
    LET parsed == parseCallouts(text, users)
    IN  IF Len(parsed) = 0
        THEN [Blank EXCEPT !.kind = "empty", !.id = updateId]
        ELSE LET s == structureComments(parsed, sortByTimestamp,
                                        flattenChronological, sortAscending)
             IN  [kind     |-> "list",
                  id       |-> updateId,
                  heap     |-> storedAfterRender(s.heap, s.comments,
                                                sortByTimestamp, sortAscending),
                  sorted   |-> s.sorted,
                  comments |-> s.comments,
                  cards    |-> renderCommentsRecursive(s.heap, s.comments,
                                                       sortByTimestamp, sortAscending),
                  byTs     |-> sortByTimestamp,
                  flatten  |-> flattenChronological,
                  asc      |-> sortAscending]

----------------------------------------------------------------------------
(* Inputs *)

LineA == <<">", " ", "[", "!", "m", "e", "]", " ", "A">>
LineB == <<">", ">", " ", "[", "!", "y", "o", "u", "]", " ", "B">>
LineT == <<">", " ", "[", "!", "m", "e", "]", " ", "(", "2", "0", "2", "4", "-", "0", "1", "-", "0", "2", " ", "1", "0", ":", "0", "0", ")">>
LineOld == <<">", ">", " ", "[", "!", "y", "o", "u", "]", " ", "(", "1", "9", "6", "9", "-", "1", "2", "-", "3", "0", " ", "1", "0", ":", "0", "0", ")">>
LineBad == <<">", " ", "[", "!", "m", "e", "]", " ", "(", "2", "0", "2", "4", "-", "1", "3", "-", "0", "1", " ", "1", "0", ":", "0", "0", ")">>
LineBlank == <<>>
LineText == <<"s", "e", "e", " ", "[", "!", "m", "e", "]">>
LineDeep == <<" ", " ", ">", " ", ">", " ", "[", "!", "Y", "o", "u", "]", "-", " ", "B">>
LineOther == <<">", " ", "[", "!", "h", "i", "m", "]", " ", "C">>
LineBare == <<">", "[", "!", "m", "e", "]", "+", " ">>
LineQuoteBody == <<">", " ", "[", "!", "m", "e", "]", " ", ">", " ", "b">>
LineDotTag == <<">", " ", "[", "!", "A", ".", "b", "]", " ", "x">>
LineDotOther == <<">", ">", "[", "!", "a", "x", "b", "]", " ", "x">>
LineEmptyTag == <<">", " ", "[", "!", "]", " ", "x">>

TagMe == <<"m", "e">>
TagYou == <<"y", "o", "u">>
TagDot == <<"a", ".", "b">>
TagUpper == <<"Y", "o", "u">>
TagParen == <<"c", "(">>
TagOne == <<"t", "a", "g", "1">>
TagTwo == <<"t", "a", "g", "2">>
NewUser == <<"n", "e", "w", "_", "u", "s", "e", "r">>

\* DEFAULT_SETTINGS.users, by tag
DefaultUsers == <<TagOne, TagTwo>>

\* what the 'User Tag' text field can hold when onChange fires
FieldValues == {<<>>, TagMe, TagYou}

Authors == {TagMe, TagUpper, TagDot}

Selections == {<<>>, <<"x">>, <<"x", "\n", ">", " ", "[", "!", "m", "e", "]">>}

\* instants, in seconds: a winter and a summer one, and four around the end of
\* daylight saving time, where the local hour from 02:00 to 03:00 comes twice
Instants ==
    {(DaysFromCivil(2024, 1, 2) * 1440 + 9 * 60) * 60 + 42,
     (DaysFromCivil(2024, 7, 1) * 1440 + 12 * 60 + 5) * 60,
     (DaysFromCivil(2024, 10, 26) * 1440 + 23 * 60 + 30) * 60,
     (DaysFromCivil(2024, 10, 27) * 1440 + 30) * 60 + 59,
     (DaysFromCivil(2024, 10, 27) * 1440 + 60 + 30) * 60,
     (DaysFromCivil(2024, 10, 27) * 1440 + 120 + 30) * 60}

\* the sequences of at most n elements of S
SeqsUpTo(S, n) == UNION {[1..k -> S] : k \in 0..n}

PipelineLines == {LineB, LineT, LineOld, LineBad}

ParseLines == {LineBlank, LineText, LineA, LineDeep, LineOther, LineBare,
               LineQuoteBody, LineDotTag, LineDotOther}

\* a document with a reply and a stamped callout, and two variations of it
ExampleText == join(<<LineA, LineB, LineT>>)
ViewTexts == {ExampleText, join(<<LineText>>), join(<<LineT, LineB, LineB>>)}

HasNaN(text, us) ==
    LET parsed == parseCallouts(text, us)
    IN  \E i \in 1..Len(parsed) : parsed[i].timestamp = NaN

\* the engine's choice is consulted only by a sort over a NaN sort value
Engines(text, us) == IF HasNaN(text, us) THEN 0..(NumEngines - 1) ELSE {0}

----------------------------------------------------------------------------
(* The refresh protocol: updateView, its triggers, and the file read *)

TypeOK ==
    /\ users \in SeqsUpTo({<<>>, TagMe, TagYou, TagDot, TagParen, TagUpper,
                           TagOne, TagTwo, NewUser}, MaxUsers)
    /\ authorName \in Authors
    /\ now \in Instants \cup {0}
    /\ sortByTimestamp \in BOOLEAN
    /\ flattenChronological \in BOOLEAN
    /\ sortAscending \in BOOLEAN
    /\ activeMd \in BOOLEAN
    /\ lastUpdateId \in 0..MaxUpdates
    /\ pending \subseteq 1..MaxUpdates
    /\ saving \in {"none", "click", "tab", "resume"}
    /\ engine \in 0..(NumEngines - 1)
    /\ view.kind \in {"blank", "nofile", "empty", "list", "parsed", "parsedMain",
                      "flat", "tree", "inserted"}
    /\ view.id \in 0..MaxUpdates
    /\ stale \in 0..MaxUpdates

Init ==
    /\ content \in ViewTexts
    /\ users = <<TagMe, TagYou>>
    /\ sortByTimestamp \in BOOLEAN
    /\ flattenChronological \in BOOLEAN
    /\ sortAscending \in BOOLEAN
    /\ activeMd \in BOOLEAN
    /\ lastUpdateId = 0
    /\ pending = {}
    /\ saving = "none"
    /\ engine = 0
    /\ view = Blank
    /\ stale = 0
    /\ authorName = TagMe /\ now = 0

\* updateView up to its await: the token is taken; with no markdown file
\* active the message is drawn at once, otherwise vault.read is awaited
updateViewStart ==
    /\ lastUpdateId < MaxUpdates
    /\ lastUpdateId' = lastUpdateId + 1
    /\ IF ~activeMd
       THEN /\ view' = NoFileView(lastUpdateId + 1)
            /\ UNCHANGED pending
       ELSE /\ pending' = pending \cup {lastUpdateId + 1}
            /\ UNCHANGED view

\* onOpen, and the ribbon icon or command that opens the view
OnOpen ==
    /\ lastUpdateId = 0
    /\ updateViewStart
    /\ UNCHANGED <<content, users, sortByTimestamp, flattenChronological,
                   sortAscending, activeMd, saving, engine, stale>>
    /\ UNCHANGED <<authorName, now>>

\* workspace 'file-open': the markdown file, or something that is none
FileOpen(md) ==
    /\ lastUpdateId > 0
    /\ activeMd' = md
    /\ lastUpdateId < MaxUpdates
    /\ lastUpdateId' = lastUpdateId + 1
    /\ IF ~md
       THEN /\ view' = NoFileView(lastUpdateId + 1)
            /\ UNCHANGED pending
       ELSE /\ pending' = pending \cup {lastUpdateId + 1}
            /\ UNCHANGED view
    /\ UNCHANGED <<content, users, sortByTimestamp, flattenChronological,
                   sortAscending, saving, engine, stale>>
    /\ UNCHANGED <<authorName, now>>

\* workspace 'editor-change': the text of the file is now text
EditorChange(text) ==
    /\ lastUpdateId > 0
    /\ activeMd
    /\ content' = text
    /\ updateViewStart
    /\ UNCHANGED <<users, sortByTimestamp, flattenChronological, sortAscending,
                   activeMd, saving, engine, stale>>
    /\ UNCHANGED <<authorName, now>>

\* a variant without the token test: every call draws when its read returns
ReadCompleteNoToken(updateId) ==
    /\ updateId \in pending
    /\ pending' = pending \ {updateId}
    /\ view' = drawView(updateId, content)
    /\ UNCHANGED <<content, users, sortByTimestamp, flattenChronological,
                   sortAscending, activeMd, lastUpdateId, saving, engine, stale>>
    /\ UNCHANGED <<authorName, now>>

\* a variant that also returns when another call still awaits its read
ReadCompleteWhenIdle(updateId) ==
    /\ updateId \in pending
    /\ pending' = pending \ {updateId}
    /\ IF updateId # lastUpdateId \/ pending # {updateId}
       THEN /\ stale' = IF updateId # lastUpdateId THEN updateId ELSE stale
            /\ UNCHANGED view
       ELSE /\ view' = drawView(updateId, content)
            /\ UNCHANGED stale
    /\ UNCHANGED <<content, users, sortByTimestamp, flattenChronological,
                   sortAscending, activeMd, lastUpdateId, saving, engine>>
    /\ UNCHANGED <<authorName, now>>

\* updateView after its await, for the call holding token updateId: a call
\* that is no longer the newest returns, the newest draws
ReadComplete(updateId) ==
    /\ updateId \in pending
    /\ pending' = pending \ {updateId}
    /\ IF updateId # lastUpdateId
       THEN /\ stale' = updateId
            /\ UNCHANGED view
       ELSE /\ view' = drawView(updateId, content)
            /\ UNCHANGED stale
    /\ UNCHANGED <<content, users, sortByTimestamp, flattenChronological,
                   sortAscending, activeMd, lastUpdateId, saving, engine>>
    /\ UNCHANGED <<authorName, now>>

\* click on the toolbar's sort type button, up to await saveSettings()
ClickSortType ==
    /\ view.kind = "list"
    /\ saving = "none"
    /\ sortByTimestamp' = ~sortByTimestamp
    /\ saving' = "click"
    /\ UNCHANGED <<content, users, flattenChronological, sortAscending, activeMd,
                   lastUpdateId, pending, engine, view, stale>>
    /\ UNCHANGED <<authorName, now>>

\* click on the toolbar's direction button, up to await saveSettings()
ClickDirection ==
    /\ view.kind = "list"
    /\ saving = "none"
    /\ sortAscending' = ~sortAscending
    /\ saving' = "click"
    /\ UNCHANGED <<content, users, sortByTimestamp, flattenChronological, activeMd,
                   lastUpdateId, pending, engine, view, stale>>
    /\ UNCHANGED <<authorName, now>>

\* the settings tab's 'Flatten Chronological List' toggle, up to
\* await saveSettings()
ToggleFlatten(value) ==
    /\ saving = "none"
    /\ flattenChronological' = value
    /\ saving' = "tab"
    /\ UNCHANGED <<content, users, sortByTimestamp, sortAscending, activeMd,
                   lastUpdateId, pending, engine, view, stale>>
    /\ UNCHANGED <<authorName, now>>

\* saveSettings once saveData resolved: 'callout-navigator:settings-changed'
\* is triggered and its handler calls updateView; a toolbar click then resumes
SettingsSaved ==
    /\ saving \in {"click", "tab"}
    /\ lastUpdateId > 0
    /\ updateViewStart
    /\ saving' = IF saving = "click" THEN "resume" ELSE "none"
    /\ UNCHANGED <<content, users, sortByTimestamp, flattenChronological,
                   sortAscending, activeMd, engine, stale>>
    /\ UNCHANGED <<authorName, now>>

\* the toolbar click handler after await saveSettings(): this.updateView()
ClickResume ==
    /\ saving = "resume"
    /\ updateViewStart
    /\ saving' = "none"
    /\ UNCHANGED <<content, users, sortByTimestamp, flattenChronological,
                   sortAscending, activeMd, engine, stale>>
    /\ UNCHANGED <<authorName, now>>

Next ==
    \/ OnOpen
    \/ \E md \in BOOLEAN : FileOpen(md)
    \/ \E text \in ViewTexts : EditorChange(text)
    \/ \E updateId \in 1..MaxUpdates : ReadComplete(updateId)
    \/ ClickSortType
    \/ ClickDirection
    \/ \E value \in BOOLEAN : ToggleFlatten(value)
    \/ SettingsSaved
    \/ ClickResume

Spec == Init /\ [][Next]_vars

\* vault.read returns to the call holding token updateId: the steps of
\* ReadComplete(updateId), the one action that takes a token out of pending,
\* told by what each of them does
ReadResolves(updateId) ==
    /\ updateId \in pending
    /\ pending' = pending \ {updateId}

\* the refresh protocol when every vault.read that is awaited returns
SpecLive ==
    /\ Init
    /\ [][Next]_vars
    /\ \A updateId \in 1..MaxUpdates : WF_pending(ReadResolves(updateId))

----------------------------------------------------------------------------
(* The ordering pipeline on its own: one updateView run, read answered at once *)

PipelineTexts == {join(ls) : ls \in SeqsUpTo(PipelineLines, MaxLines)}

InitPipeline ==
    /\ content \in PipelineTexts
    /\ users = <<TagMe, TagYou>>
    /\ engine \in Engines(content, users)
    /\ sortByTimestamp \in BOOLEAN
    /\ flattenChronological \in BOOLEAN
    /\ sortAscending \in BOOLEAN
    /\ activeMd = TRUE
    /\ lastUpdateId = 0
    /\ pending = {}
    /\ saving = "none"
    /\ view = Blank
    /\ stale = 0
    /\ authorName = TagMe /\ now = 0

\* updateView with vault.read answered before anything else happens
Refresh ==
    /\ lastUpdateId = 0
    /\ activeMd
    /\ lastUpdateId' = lastUpdateId + 1
    /\ view' = drawView(lastUpdateId + 1, content)
    /\ UNCHANGED <<content, users, sortByTimestamp, flattenChronological,
                   sortAscending, activeMd, pending, saving, engine, stale>>
    /\ UNCHANGED <<authorName, now>>

NextPipeline == Refresh

SpecPipeline == InitPipeline /\ [][NextPipeline]_vars

----------------------------------------------------------------------------
(* updateView run again and again on a document and settings that stay *)

RerunTexts ==
    ViewTexts \cup {join(<<LineEmptyTag, LineA>>), join(<<LineB, LineB, LineBad, LineT>>)}

InitRerun ==
    /\ content \in RerunTexts
    /\ users \in {<<>>, <<TagMe, TagYou>>}
    /\ engine \in Engines(content, users)
    /\ sortByTimestamp \in BOOLEAN
    /\ flattenChronological \in BOOLEAN
    /\ sortAscending \in BOOLEAN
    /\ activeMd = TRUE
    /\ lastUpdateId = 0
    /\ pending = {}
    /\ saving = "none"
    /\ authorName = TagMe /\ now = 0
    /\ view = Blank
    /\ stale = 0

\* one more updateView, run to its end before the next one starts
Rerun ==
    /\ lastUpdateId < MaxUpdates
    /\ activeMd
    /\ lastUpdateId' = lastUpdateId + 1
    /\ view' = drawView(lastUpdateId + 1, content)
    /\ UNCHANGED <<content, users, sortByTimestamp, flattenChronological,
                   sortAscending, activeMd, pending, saving, authorName, now,
                   engine, stale>>

NextRerun == Rerun

SpecRerun == InitRerun /\ [][NextRerun]_vars

----------------------------------------------------------------------------
(* The settings tab: the tracked users, the view not being open *)

InitSettings ==
    /\ content = join(<<LineEmptyTag, LineA>>)
    /\ users = DefaultUsers
    /\ sortByTimestamp = FALSE
    /\ flattenChronological = TRUE
    /\ sortAscending = TRUE
    /\ activeMd = TRUE
    /\ lastUpdateId = 0
    /\ pending = {}
    /\ saving = "none"
    /\ authorName = TagMe /\ now = 0
    /\ engine = 0
    /\ view = Blank
    /\ stale = 0

\* loadSettings: Object.assign({}, DEFAULT_SETTINGS, await this.loadData());
\* hasUsers tells whether the stored data, last written by saveSettings or
\* left by an older version, has a users property
LoadSettings(hasUsers) ==
    /\ users' = IF hasUsers THEN users ELSE DefaultUsers
    /\ UNCHANGED <<content, sortByTimestamp, flattenChronological, sortAscending,
                   activeMd, lastUpdateId, pending, saving, authorName, now,
                   engine, view, stale>>

\* the 'Add User' button
AddUser ==
    /\ Len(users) < MaxUsers
    /\ users' = Append(users, NewUser)
    /\ UNCHANGED <<content, sortByTimestamp, flattenChronological, sortAscending,
                   activeMd, lastUpdateId, pending, saving, authorName, now,
                   engine, view, stale>>

\* onChange of the tag text field of users[index]
EditTag(index, value) ==
    /\ index \in 1..Len(users)
    /\ users' = [users EXCEPT ![index] = value]
    /\ UNCHANGED <<content, sortByTimestamp, flattenChronological, sortAscending,
                   activeMd, lastUpdateId, pending, saving, authorName, now,
                   engine, view, stale>>

\* the trash button of users[index]: users.splice(index, 1)
RemoveUser(index) ==
    /\ index \in 1..Len(users)
    /\ users' = SubSeq(users, 1, index - 1) \o SubSeq(users, index + 1, Len(users))
    /\ UNCHANGED <<content, sortByTimestamp, flattenChronological, sortAscending,
                   activeMd, lastUpdateId, pending, saving, authorName, now,
                   engine, view, stale>>

NextSettings ==
    \/ \E hasUsers \in BOOLEAN : LoadSettings(hasUsers)
    \/ AddUser
    \/ \E index \in 1..MaxUsers, value \in FieldValues : EditTag(index, value)
    \/ \E index \in 1..MaxUsers : RemoveUser(index)

SpecSettings == InitSettings /\ [][NextSettings]_vars

----------------------------------------------------------------------------
(* parseCallouts on its own *)

ParseTexts == {join(ls) : ls \in SeqsUpTo(ParseLines, MaxParseLines)}

TagSets == {<<>>, <<TagMe>>, <<TagMe, TagYou>>, <<TagDot, TagParen>>}

InitParse ==
    /\ content \in ParseTexts
    /\ users \in TagSets
    /\ sortByTimestamp = FALSE
    /\ flattenChronological = TRUE
    /\ sortAscending = TRUE
    /\ activeMd = TRUE
    /\ lastUpdateId = 0
    /\ pending = {}
    /\ saving = "none"
    /\ engine = 0
    /\ view = Blank
    /\ stale = 0
    /\ authorName = TagMe /\ now = 0

Parse ==
    /\ view.kind = "blank"
    /\ view' = [Blank EXCEPT !.kind = "parsed", !.heap = parseCallouts(content, users)]
    /\ UNCHANGED <<content, users, sortByTimestamp, flattenChronological,
                   sortAscending, activeMd, lastUpdateId, pending, saving, engine,
                   stale>>
    /\ UNCHANGED <<authorName, now>>

ParseMain ==
    /\ view.kind = "blank"
    /\ view' = [Blank EXCEPT !.kind = "parsedMain",
                             !.heap = parseCalloutsMain(content, users)]
    /\ UNCHANGED <<content, users, sortByTimestamp, flattenChronological,
                   sortAscending, activeMd, lastUpdateId, pending, saving, engine,
                   stale>>
    /\ UNCHANGED <<authorName, now>>

NextParse == Parse \/ ParseMain

SpecParse == InitParse /\ [][NextParse]_vars

----------------------------------------------------------------------------
(* buildCommentTree on its own: any flat sequence of levels *)

FlatComment(i, level) ==
    [lineNumber |-> i - 1, author |-> TagMe, content |-> Untitled,
     timestamp |-> Undefined, level |-> level, children |-> <<>>]

FlatInputs ==
    {[i \in 1..Len(ls) |-> FlatComment(i, ls[i])] : ls \in SeqsUpTo(1..MaxLevel, MaxFlat)}

InitTree ==
    /\ content = <<>>
    /\ users = <<TagMe, TagYou>>
    /\ sortByTimestamp = FALSE
    /\ flattenChronological = TRUE
    /\ sortAscending = TRUE
    /\ activeMd = TRUE
    /\ lastUpdateId = 0
    /\ pending = {}
    /\ saving = "none"
    /\ engine = 0
    /\ \E flat \in FlatInputs : view = [Blank EXCEPT !.kind = "flat", !.heap = flat]
    /\ stale = 0
    /\ authorName = TagMe /\ now = 0

BuildTree ==
    /\ view.kind = "flat"
    /\ LET flatComments == [i \in 1..Len(view.heap) |-> i]
           t == buildCommentTree(view.heap, flatComments)
       IN  view' = [view EXCEPT !.kind = "tree", !.heap = t.heap,
                                !.sorted = flatComments, !.comments = t.comments]
    /\ UNCHANGED <<content, users, sortByTimestamp, flattenChronological,
                   sortAscending, activeMd, lastUpdateId, pending, saving, engine,
                   stale>>
    /\ UNCHANGED <<authorName, now>>

NextTree == BuildTree

SpecTree == InitTree /\ [][NextTree]_vars

----------------------------------------------------------------------------
(* insertCallout on its own: the inserted block is the document, and is parsed *)

InitInsert ==
    /\ content \in Selections
    /\ authorName \in Authors
    /\ users \in {<<authorName>>, <<TagYou, authorName>>}
    /\ now \in Instants
    /\ sortByTimestamp = FALSE
    /\ flattenChronological = TRUE
    /\ sortAscending = TRUE
    /\ activeMd = TRUE
    /\ lastUpdateId = 0
    /\ pending = {}
    /\ saving = "none"
    /\ engine = 0
    /\ view = Blank
    /\ stale = 0

\* the 'Insert Comment Callout' command on a document that is all selected,
\* and parseCallouts on the document it leaves
InsertCallout ==
    /\ view.kind = "blank"
    /\ content' = insertCallout(content, authorName, now)
    /\ view' = [Blank EXCEPT !.kind = "inserted",
                             !.heap = parseCallouts(content', users)]
    /\ UNCHANGED <<users, sortByTimestamp, flattenChronological, sortAscending,
                   activeMd, lastUpdateId, pending, saving, authorName, now,
                   engine, stale>>

NextInsert == InsertCallout

SpecInsert == InitInsert /\ [][NextInsert]_vars

----------------------------------------------------------------------------
(* Notions the properties are stated with *)

\* node, then its children in stored order, for every node of list in turn
RECURSIVE PreOrder(_, _)
PreOrder(heap, list) ==
    IF Len(list) = 0 THEN <<>>
    ELSE <<list[1]>> \o PreOrder(heap, heap[list[1]].children)
                     \o PreOrder(heap, Tail(list))

\* the comment whose children hold r, 0 if r is in no children
Parent(heap, r) ==
    IF \E q \in Refs(heap) : r \in Range(heap[q].children)
    THEN CHOOSE q \in Refs(heap) : r \in Range(heap[q].children)
    ELSE 0

\* the comments as parseCallouts returned them
Fresh(heap) == [i \in 1..Len(heap) |-> [heap[i] EXCEPT !.children = <<>>]]

Identity(n) == [i \in 1..n |-> i]

\* the value a comment is to sort by when an absent timestamp counts as 0
ValueOrZero(c) == IF c.timestamp.k = "number" THEN c.timestamp.v ELSE 0

\* the cards of one container are in the order of the direction
CardsInOrder(heap, cards, asc) ==
    \A i, j \in 1..Len(cards) :
        i < j => IF asc
                 THEN ValueOrZero(heap[cards[i].comment]) <= ValueOrZero(heap[cards[j].comment])
                 ELSE ValueOrZero(heap[cards[i].comment]) >= ValueOrZero(heap[cards[j].comment])

RECURSIVE EveryContainerInOrder(_, _, _)
EveryContainerInOrder(heap, cards, asc) ==
    /\ CardsInOrder(heap, cards, asc)
    /\ \A i \in 1..Len(cards) : EveryContainerInOrder(heap, cards[i].cards, asc)

\* below every card of cards, at every depth, the child cards are in
\* ascending lineNumber
RECURSIVE ChildCardsInLineOrder(_, _)
ChildCardsInLineOrder(heap, cards) ==
    \A i \in 1..Len(cards) :
        /\ \A j, k \in 1..Len(cards[i].cards) :
              j < k => heap[cards[i].cards[j].comment].lineNumber
                         < heap[cards[i].cards[k].comment].lineNumber
        /\ ChildCardsInLineOrder(heap, cards[i].cards)

\* the lines of a text, told by its newline characters alone
Newlines(text) == {q \in 1..Len(text) : text[q] = "\n"}

NewlinesBefore(text, p) == Cardinality({q \in Newlines(text) : q < p})

\* the position of the n-th newline, n >= 1
NthNewline(text, n) == CHOOSE q \in Newlines(text) : NewlinesBefore(text, q) = n - 1

\* the line of zero-based index n
TextLine(text, n) ==
    SubSeq(text,
           IF n = 0 THEN 1 ELSE NthNewline(text, n) + 1,
           IF n = Cardinality(Newlines(text)) THEN Len(text)
           ELSE NthNewline(text, n + 1) - 1)

\* the zero-based indexes of the lines the tag pattern matches
MatchingLines(text, us, main) ==
    IF Len(us) = 0 THEN {}
    ELSE {n \in 0..Cardinality(Newlines(text)) :
            IF main THEN LineMatchMain(TextLine(text, n), tagsPattern(us)).ok
            ELSE LineMatch(TextLine(text, n), tagsPattern(us)).ok}

\* the position of the first "[!" of a line, 0 if there is none
FirstMarker(line) ==
    IF \E p \in 1..(Len(line) - 1) : line[p] = "[" /\ line[p + 1] = "!"
    THEN CHOOSE p \in 1..(Len(line) - 1) :
            /\ line[p] = "[" /\ line[p + 1] = "!"
            /\ \A q \in 1..(p - 1) : ~(line[q] = "[" /\ line[q + 1] = "!")
    ELSE 0

\* line holds "[!", a text equal to tag up to letter case, and "]"
OccursMarked(line, tag) ==
    \E p \in 1..Len(line) :
        /\ p + 2 + Len(tag) <= Len(line)
        /\ line[p] = "[" /\ line[p + 1] = "!"
        /\ line[p + 2 + Len(tag)] = "]"
        /\ \A k \in 1..Len(tag) : LowerChar(line[p + 1 + k]) = LowerChar(tag[k])

\* x occurs in s
Contains(s, x) == \E p \in 1..Len(s) : s[p] = x

\* the comments of the cards, every card followed by the cards inside it
RECURSIVE CardComments(_)
CardComments(cards) ==
    IF Len(cards) = 0 THEN <<>>
    ELSE <<cards[1].comment>> \o CardComments(cards[1].cards)
                              \o CardComments(Tail(cards))

----------------------------------------------------------------------------
(* Properties *)

\* C1: a call of updateView whose read returns after a newer call has started
\* leaves the view as it is, and the token of the run shown never decreases.
C1_StaleReadNeverDraws ==
    [][/\ \A u \in pending \ pending' : u # lastUpdateId => view' = view
       /\ view'.id >= view.id]_vars

\* a stale call has returned and a newer call has drawn the list
C1_Witness ==
    /\ stale # 0
    /\ view.kind = "list"
    /\ view.id > stale
    /\ pending = {}

\* C2 (refuted by the code): in line mode, descending, the child cards of every card
\* are shown in ascending lineNumber at every nesting level.
C2_ChildrenShownInDocumentOrder ==
    (view.kind = "list" /\ ~view.byTs /\ ~view.asc)
        => ChildCardsInLineOrder(view.heap, view.cards)

\* C3 (refuted by the code): in chronological mode without flattening, every comment
\* has the parent it has in the forest built from the document-order sequence.
C3_NestingIndependentOfChronology ==
    (view.kind = "list" /\ view.byTs /\ ~view.flatten)
        => LET doc == buildCommentTree(Fresh(view.heap), Identity(Len(view.heap))).heap
           IN  \A r \in Refs(view.heap) : Parent(view.heap, r) = Parent(doc, r)

\* C4 (refuted by the code): a stamp-shaped text that is no valid instant leaves the
\* timestamp absent, and the chronological order is the one value 0 gives.
C4_UnparseableStampIsAbsent ==
    view.kind = "list"
        => /\ \A r \in Refs(view.heap) :
                 (/\ tsMatch(view.heap[r].content) # <<>>
                  /\ DateParse(replaceSpaceByT(tsMatch(view.heap[r].content))) = NaN)
                     => view.heap[r].timestamp = Undefined
           /\ view.byTs =>
                 view.sorted =
                    StableSortFrom(Identity(Len(view.heap)), 1,
                        [a \in Refs(view.heap), b \in Refs(view.heap) |->
                            (ValueOrZero(view.heap[a]) - ValueOrZero(view.heap[b]))
                              * (IF view.asc THEN 1 ELSE -1)],
                        <<>>)

\* C5 (refuted by the code): in the chronological order no comment with a parsed
\* timestamp stands before one without a timestamp when ascending, nor after
\* one when descending.
C5_AbsentSortsEarliest ==
    (view.kind = "list" /\ view.byTs)
        => \A i, j \in 1..Len(view.sorted) :
              (/\ i < j
               /\ view.heap[view.sorted[IF view.asc THEN i ELSE j]].timestamp.k = "number")
                 => view.heap[view.sorted[IF view.asc THEN j ELSE i]].timestamp # Undefined

\* C6 (refuted by the code): in the chronological order, in either direction, of two
\* comments with equal sort values the one of smaller lineNumber comes first.
C6_ChronologicalSortStable ==
    (view.kind = "list" /\ view.byTs)
        => \A i, j \in 1..Len(view.sorted) :
              (/\ i < j
               /\ getSortValue(view.heap[view.sorted[i]]).k = "number"
               /\ getSortValue(view.heap[view.sorted[i]])
                    = getSortValue(view.heap[view.sorted[j]]))
                 => view.heap[view.sorted[i]].lineNumber
                      < view.heap[view.sorted[j]].lineNumber

\* C7: the pre-order traversal of the forest buildCommentTree returns is the
\* flat sequence it was given: same elements, same order, none lost or twice.
C7_TreeRoundTrip ==
    view.kind = "tree" => PreOrder(view.heap, view.comments) = view.sorted

\* a forest with several roots, a root with several children and a depth gap
C7_Witness ==
    /\ view.kind = "tree"
    /\ Len(view.comments) >= 2
    /\ \E r \in Refs(view.heap) :
          /\ Len(view.heap[r].children) >= 2
          /\ \E i \in 1..Len(view.heap[r].children) :
                view.heap[view.heap[r].children[i]].level > view.heap[r].level + 1

\* C8: in line mode the roots handed to rendering when descending are the
\* roots of the ascending run in reverse, each with the same stored subtree.
C8_DescendingReversesRoots ==
    (view.kind = "list" /\ ~view.byTs /\ ~view.asc)
        => LET up == structureComments(Fresh(view.heap), FALSE, view.flatten, TRUE)
           IN  /\ view.comments = reverse(up.comments)
               /\ view.heap = up.heap

\* a descending line-mode run with several roots, one of them with children
C8_Witness ==
    /\ view.kind = "list" /\ ~view.byTs /\ ~view.asc
    /\ Len(view.comments) >= 2
    /\ view.comments # reverse(view.comments)
    /\ \E i \in 1..Len(view.comments) : Len(view.heap[view.comments[i]].children) >= 1

\* C9 (refuted by the code): in chronological mode without flattening the cards of the
\* root level and of every children container are ordered by timestamp
\* (absent = 0) in the configured direction.
C9_EveryLevelChronological ==
    (view.kind = "list" /\ view.byTs /\ ~view.flatten)
        => EveryContainerInOrder(view.heap, view.cards, view.asc)

\* C10: the lineNumber values parseCallouts returns are strictly increasing
\* and are exactly the zero-based indexes of the lines the tag pattern
\* matches, one comment for each.
C10_LineNumbersAreMatchedLines ==
    view.kind \in {"parsed", "parsedMain"}
        => /\ \A i, j \in 1..Len(view.heap) :
                 i < j => view.heap[i].lineNumber < view.heap[j].lineNumber
           /\ {view.heap[i].lineNumber : i \in 1..Len(view.heap)}
                 = MatchingLines(content, users, view.kind = "parsedMain")

\* two comments were returned, the first from a line that is not the first
C10_Witness ==
    /\ view.kind = "parsed"
    /\ Len(view.heap) >= 2
    /\ view.heap[1].lineNumber > 0
    /\ \E n \in 0..Cardinality(Newlines(content)) : TextLine(content, n) = <<>>

\* C11 (refuted by the code): the header line insertCallout writes yields
\* exactly one comment for line 0, of level 1, whose author is the author
\* name in lower case and whose timestamp is the instant of the insertion
\* truncated to the minute.
C11_InsertRoundTrip ==
    view.kind = "inserted"
        => /\ Cardinality({i \in 1..Len(view.heap) : view.heap[i].lineNumber = 0}) = 1
           /\ \A i \in 1..Len(view.heap) :
                 view.heap[i].lineNumber = 0
                    => /\ view.heap[i].level = 1
                       /\ view.heap[i].author = toLowerCase(authorName)
                       /\ view.heap[i].timestamp = Num(now \div 60)

\* C12: in chronological mode with flattenChronological set, the list handed
\* to rendering holds every extracted comment at top level, once, and no
\* comment has a child: every card's children container is absent.
C12_FlattenedHasNoNesting ==
    (view.kind = "list" /\ view.byTs /\ view.flatten)
        => /\ Len(view.comments) = Len(view.heap)
           /\ Range(view.comments) = Refs(view.heap)
           /\ \A r \in Refs(view.heap) : view.heap[r].children = <<>>
           /\ Len(view.cards) = Len(view.heap)
           /\ \A i \in 1..Len(view.cards) : view.cards[i].cards = <<>>

\* a flattened chronological list whose order the tree builder would nest
C12_Witness ==
    /\ view.kind = "list" /\ view.byTs /\ view.flatten
    /\ Len(view.heap) >= 3
    /\ \E r \in Refs(view.heap) :
          Len(buildCommentTree(view.heap, view.sorted).heap[r].children) >= 2

\* C13: the level of every comment parseCallouts returns is the number of '>'
\* that stand before the first "[!" of its line, and is at least 1.
C13_LevelCountsLeadingMarkers ==
    view.kind = "parsed"
        => \A i \in 1..Len(view.heap) :
              LET line == TextLine(content, view.heap[i].lineNumber)
              IN  /\ FirstMarker(line) > 0
                  /\ view.heap[i].level
                        = Cardinality({q \in 1..(FirstMarker(line) - 1) : line[q] = ">"})
                  /\ view.heap[i].level >= 1

\* a comment of level two, and one of level one whose body holds a '>'
C13_Witness ==
    /\ view.kind = "parsed"
    /\ \E i \in 1..Len(view.heap) : view.heap[i].level = 2
    /\ \E i \in 1..Len(view.heap) :
          view.heap[i].level = 1 /\ Contains(view.heap[i].content, ">")

\* C14: whatever pattern-special characters the configured tags hold, the
\* matcher is built without error, and every comment returned stands for a
\* line that holds "[!tag]" for a configured tag, character for character up
\* to letter case, that tag in lower case being the comment's author.
C14_SpecialCharactersAreLiteral ==
    (view.kind \in {"parsed", "parsedMain"} /\ Len(users) > 0)
        => /\ Compiles(tagsPattern(users))
           /\ \A i \in 1..Len(view.heap) :
                 \E k \in 1..Len(users) :
                    /\ view.heap[i].author = toLowerCase(users[k])
                    /\ OccursMarked(TextLine(content, view.heap[i].lineNumber), users[k])

\* the tags 'a.b' and 'c(' are configured: a line tagged [!A.b] gave a
\* comment, a line tagged [!axb] gave none
C14_Witness ==
    /\ view.kind = "parsed"
    /\ users = <<TagDot, TagParen>>
    /\ \E i \in 1..Len(view.heap) : view.heap[i].author = TagDot
    /\ \E n \in 0..Cardinality(Newlines(content)) :
          /\ TextLine(content, n) = LineDotOther
          /\ \A i \in 1..Len(view.heap) : view.heap[i].lineNumber # n

\* C15: with no tag configured parseCallouts returns the empty sequence for
\* every document, and updateView shows the empty state: nothing is sorted,
\* no tree is built, no card is drawn.
C15_NoTagsGiveEmptyState ==
    Len(users) = 0
        => /\ parseCallouts(content, users) = <<>>
           /\ parseCalloutsMain(content, users) = <<>>
           /\ view.kind # "blank"
                 => /\ view.kind = "empty"
                    /\ view.heap = <<>> /\ view.sorted = <<>>
                    /\ view.comments = <<>> /\ view.cards = <<>>

\* no tag is configured and the document shown holds a line tagged "[!]"
C15_Witness ==
    /\ Len(users) = 0
    /\ view.kind = "empty"
    /\ \E n \in 0..Cardinality(Newlines(content)) : TextLine(content, n) = LineEmptyTag

\* C16: after any number of completed updateView runs on the same document,
\* tags and flags, the comments and the forest shown are those one run from
\* scratch gives: no child is carried over or added twice.
C16_RerunIsIdempotent ==
    LET parsed == parseCallouts(content, users)
        s == structureComments(parsed, sortByTimestamp, flattenChronological,
                               sortAscending)
    IN  /\ view.kind = "empty" => parsed = <<>>
        /\ view.kind = "list"
              => /\ Fresh(view.heap) = parsed
                 /\ view.heap = s.heap
                 /\ view.sorted = s.sorted
                 /\ view.comments = s.comments
                 /\ view.cards = renderCommentsRecursive(s.heap, s.comments,
                                                         sortByTimestamp, sortAscending)

\* a third run has drawn a forest in which some comment has children
C16_Witness ==
    /\ view.kind = "list"
    /\ view.id >= 3
    /\ \E r \in Refs(view.heap) : Len(view.heap[r].children) >= 1

\* C17 (refuted by the code): in every settings state the settings tab and
\* loadSettings can reach, every configured tag is a non-empty string, and
\* parseCallouts gives no comment for a line tagged "[!]".
C17_TagsAreNonEmpty ==
    /\ \A k \in 1..Len(users) : Len(users[k]) > 0
    /\ \A i \in 1..Len(parseCallouts(content, users)) :
          TextLine(content, parseCallouts(content, users)[i].lineNumber) # LineEmptyTag

\* C18: parseCallouts returns every comment with empty children; after an
\* updateView run the stored children are those buildCommentTree, called once
\* on the sorted array, pushed (none when sortByTimestamp and
\* flattenChronological are both set): sorting and rendering leave them alone.
C18_ChildrenSetOnceByTreeBuilder ==
    view.kind = "list"
        => LET parsed == parseCallouts(content, users)
           IN  /\ \A i \in 1..Len(parsed) : parsed[i].children = <<>>
               /\ view.heap = IF view.byTs /\ view.flatten THEN parsed
                               ELSE buildCommentTree(parsed, view.sorted).heap

\* some comment's children are shown in another order than they are stored
C18_Witness ==
    /\ view.kind = "list"
    /\ \E r \in Refs(view.heap) :
          /\ Len(view.heap[r].children) >= 2
          /\ childrenToRender(view.heap, r, view.byTs, view.asc) # view.heap[r].children

\* C19: after each step of buildCommentTree the levels of the stack increase
\* strictly from bottom to top, and in the forest returned every child is
\* strictly deeper than its parent.
C19_StackLevelsIncrease ==
    view.kind = "tree"
        => /\ \A k \in 0..Len(view.sorted) :
                 LET st == treeFrom([heap |-> Fresh(view.heap), tree |-> <<>>,
                                     stack |-> <<>>],
                                    SubSeq(view.sorted, 1, k), 1)
                 IN  \A i, j \in 1..Len(st.stack) :
                        i < j => view.heap[st.stack[i]].level < view.heap[st.stack[j]].level
           /\ \A r \in Refs(view.heap) :
                 \A i \in 1..Len(view.heap[r].children) :
                    view.heap[view.heap[r].children[i]].level > view.heap[r].level

\* a forest with two children of equal level under one comment, and a child
\* more than one level below its parent
C19_Witness ==
    /\ view.kind = "tree"
    /\ \E r \in Refs(view.heap) :
          \E i, j \in 1..Len(view.heap[r].children) :
             /\ i < j
             /\ view.heap[view.heap[r].children[i]].level
                   = view.heap[view.heap[r].children[j]].level
    /\ \E r \in Refs(view.heap) :
          \E i \in 1..Len(view.heap[r].children) :
             view.heap[view.heap[r].children[i]].level > view.heap[r].level + 1

\* C20: whatever sortByTimestamp, flattenChronological and sortAscending are,
\* every comment extracted from the document is drawn as exactly one card.
C20_EveryCommentDrawnOnce ==
    view.kind = "list"
        => /\ Len(CardComments(view.cards)) = Len(view.heap)
           /\ Range(CardComments(view.cards)) = Refs(view.heap)
           /\ Fresh(view.heap) = parseCallouts(content, users)

\* a chronological forest, not flattened, with cards inside a card, drawn
\* from comments of which one has a NaN timestamp
C20_Witness ==
    /\ view.kind = "list" /\ view.byTs /\ ~view.flatten /\ ~view.asc
    /\ Len(view.heap) >= 4
    /\ \E i \in 1..Len(view.cards) : Len(view.cards[i].cards) >= 2
    /\ \E r \in Refs(view.heap) : view.heap[r].timestamp = NaN

\* C21: when every read that is awaited returns, the view ends up showing,
\* for good, what the newest updateView call drew: no call is left waiting,
\* the run shown holds the token lastUpdateId, and that call was not
\* discarded as stale.
C21_NewestIsShownInTheEnd ==
    <>[](/\ pending = {}
         /\ view.id = lastUpdateId
         /\ lastUpdateId > 0 => stale # lastUpdateId)

\* a third call has drawn the list after an older call
\* was discarded, and none is waiting
C21_Witness ==
    /\ lastUpdateId = 3
    /\ pending = {}
    /\ view.kind = "list"
    /\ view.id = lastUpdateId
    /\ stale \in 1..(lastUpdateId - 1)

====
